---- MODULE Spec2Model ----
(***************************************************************************)
(* A model of the run orchestration core of agentarena: the task x agent   *)
(* matrix of run_benchmark, the per-pair stages of _run_single (sandbox    *)
(* creation, agent invocation, validation, cleanup), the two sandbox       *)
(* strategies of sandbox.py, the two subprocess executors (Agent.run,      *)
(* run_validation) and the winner selection of reporter.py.                *)
(*                                                                         *)
(* The environment (git, the filesystem, the commands that are run) is     *)
(* nondeterministic: a command completes with some exit code, runs into    *)
(* the timeout, or makes subprocess.run raise; git and shutil calls        *)
(* succeed or fail.  Environment failures are drawn from a budget of       *)
(* MaxFaults per run.  The creation of the .agentarena/worktrees parent    *)
(* directory is assumed to succeed (spec section 7 lists its failure as    *)
(* an unrecoverable environment issue that aborts the run).                *)
(***************************************************************************)
EXTENDS Integers, Sequences, FiniteSets, TLC

VARIABLES
    options,       \* the options --timeout, --task and --agent of the command line
    config,        \* the content of the configuration file until load_config
                   \* has returned, then the BenchConfig handed to run_benchmark
    env,           \* environment: the outputs, durations, writes and child
                   \* processes commands can have
    git_repo,      \* environment: is project_path inside a git repository
    fs,            \* environment: sandbox directories that exist, id -> strategy
    files,         \* environment: content of the project and of the sandboxes
    running,       \* environment: processes started by commands of finished
                   \* executor calls that are still running
    faults,        \* environment failures injected so far
    pc,            \* position of run_benchmark / _run_single
    task_idx,      \* index of the task of the outer loop (1-based)
    agent_idx,     \* index of the agent of the inner loop (1-based)
    timeout,       \* _run_single: effective timeout of the pair
    metrics,       \* _run_single: the RunMetrics being filled / returned
    sandbox_path,  \* _run_single: the sandbox returned by create_sandbox
    command,       \* Agent.run: the command line handed to the shell
    agent_result,  \* _run_single: AgentResult returned by agent.run
    validation,    \* _run_single: ValidationResult returned by run_validation
    trace,         \* calls made for the current pair, in order:
                   \* <<callee, sandbox, outcome and return code of the
                   \*   subprocess, exception that left the callee>>
    all_runs,      \* run_benchmark: the list of records
    summaries,     \* run_benchmark: result of _build_summaries
    winner,        \* print_summary: result of _pick_winner
    saved,         \* save_run: the content of the history file
    raised         \* exception that escaped run_benchmark

vars == <<options, config, env, git_repo, fs, files, running, faults, pc, task_idx,
          agent_idx, timeout, metrics, sandbox_path, command, agent_result,
          validation, trace, all_runs, summaries, winner, saved, raised>>

(***************************************************************************)
(* Bounds of the model.                                                    *)
(***************************************************************************)
MaxPairs == 4     \* a configuration has at most this many (task, agent) pairs
MaxIds == 2       \* number of distinct values uuid4().hex[:12] is drawn from
MaxFaults == 2    \* environment failures per run
MaxElapsed == 1   \* Timer.elapsed is drawn from 0..MaxElapsed
MaxDescendants == 1  \* processes a command's shell starts besides itself
MaxText == 3      \* pieces of a command template and of a prompt
MaxFlags == 2     \* values given with --agent on the command line
MaxRuns == 3      \* records of a summary that is examined on its own

(***************************************************************************)
(* Optional values (Python's None / a value).                              *)
(***************************************************************************)
None == <<>>
Some(v) == <<v>>
IsNone(o) == o = <<>>
Get(o) == o[1]

ExitCodes == {0, 1, 2}
RunIds == 1..MaxIds
Elapsed == 0..MaxElapsed

(***************************************************************************)
(* config.py                                                               *)
(***************************************************************************)
DefaultTimeout == 120

\* A text is the sequence of its pieces: the occurrences of "{prompt}", as
\* str.replace and `in` find them from left to right, and the text between
\* them.
Placeholder == "{prompt}"
Pieces == {Placeholder, "x"}
Texts(n) == UNION {[1..k -> Pieces] : k \in 0..n}

\* `"{prompt}" in v`
Contains(v, piece) == \E k \in 1..Len(v) : v[k] = piece

TaskConfig(name, prompt, task_timeout) ==
    [name |-> name, prompt |-> prompt, timeout |-> task_timeout]

MetricNames == {"tokens_in", "tokens_out", "cost", "llm_calls"}

\* MetricPatterns: for each metric, whether a pattern is configured.
MetricPatterns(configured) == [m \in MetricNames |-> m \in configured]

AgentConfig(name, command_template, patterns) ==
    [name |-> name, command |-> command_template, patterns |-> patterns]

BenchConfig(tasks, agents) ==
    [timeout |-> DefaultTimeout, tasks |-> tasks, agents |-> agents]

TaskName(i) == <<"task", i>>
AgentName(j) == <<"agent", j>>


\* TaskConfig.timeout is Optional[int]; `task.timeout or global_timeout`
\* takes the global value when the task timeout is None or 0 (falsy).
EffectiveTimeout(task, global_timeout) ==
    IF IsNone(task.timeout) \/ Get(task.timeout) = 0
    THEN global_timeout
    ELSE Get(task.timeout)

\* What yaml.safe_load gives for bench.yaml: no file, a document that is
\* no mapping, or a mapping whose keys timeout, tasks and agents may be
\* absent.
MissingFile == [kind |-> "missing", timeout |-> None, tasks |-> None, agents |-> None]
NoMapping == [kind |-> "scalar", timeout |-> None, tasks |-> None, agents |-> None]
Mapping(global_timeout, tasks, agents) ==
    [kind |-> "mapping", timeout |-> global_timeout, tasks |-> tasks, agents |-> agents]

\* `dupes = [n for n in names if names.count(n) > 1]` over the names of a
\* list of items.
dupes(v) ==
    {v[k].name : k \in {i \in 1..Len(v) :
        Cardinality({j \in 1..Len(v) : v[j].name = v[i].name}) > 1}}

\* Mutant: the validators of the names are left out.
load_config_AcceptsDuplicates(doc) ==
    IF doc.kind = "missing"
    THEN [exc |-> Some(<<"FileNotFoundError">>), config |-> BenchConfig(<<>>, <<>>)]
    ELSE IF doc.kind # "mapping"
    THEN [exc |-> Some(<<"ValueError">>), config |-> BenchConfig(<<>>, <<>>)]
    ELSE LET tasks == IF IsNone(doc.tasks) THEN <<>> ELSE Get(doc.tasks)
             agents_ == IF IsNone(doc.agents) THEN <<>> ELSE Get(doc.agents)
             errors ==
                 (IF ~IsNone(doc.timeout) /\ ~(Get(doc.timeout) >= 1)
                  THEN {"timeout"} ELSE {})
                 \cup (IF IsNone(doc.tasks) \/ Len(tasks) < 1
                       THEN {"tasks"} ELSE {})
                 \cup (IF IsNone(doc.agents) \/ Len(agents_) < 1
                          \/ \E j \in 1..Len(agents_) :
                                ~Contains(agents_[j].command, Placeholder)
                       THEN {"agents"} ELSE {})
         IN  [exc |-> IF errors = {} THEN None ELSE Some(<<"ValidationError">>),
              config |-> [BenchConfig(tasks, agents_) EXCEPT !.timeout =
                             IF IsNone(doc.timeout) THEN DefaultTimeout
                             ELSE Get(doc.timeout)]]

\* load_config: [exc |-> the exception raised, config |-> the BenchConfig].
\* BenchConfig(**raw) checks timeout >= 1 when it is given, at least one
\* task and one agent, the placeholder in every agent command and the
\* uniqueness of the task names and of the agent names; a required key
\* that is absent is an error as well.
load_config(doc) ==
    IF doc.kind = "missing"
    THEN [exc |-> Some(<<"FileNotFoundError">>), config |-> BenchConfig(<<>>, <<>>)]
    ELSE IF doc.kind # "mapping"
    THEN [exc |-> Some(<<"ValueError">>), config |-> BenchConfig(<<>>, <<>>)]
    ELSE LET tasks == IF IsNone(doc.tasks) THEN <<>> ELSE Get(doc.tasks)
             agents_ == IF IsNone(doc.agents) THEN <<>> ELSE Get(doc.agents)
             errors ==
                 (IF ~IsNone(doc.timeout) /\ ~(Get(doc.timeout) >= 1)
                  THEN {"timeout"} ELSE {})
                 \cup (IF IsNone(doc.tasks) \/ Len(tasks) < 1 \/ dupes(tasks) # {}
                       THEN {"tasks"} ELSE {})
                 \cup (IF IsNone(doc.agents) \/ Len(agents_) < 1
                          \/ dupes(agents_) # {}
                          \/ \E j \in 1..Len(agents_) :
                                ~Contains(agents_[j].command, Placeholder)
                       THEN {"agents"} ELSE {})
         IN  [exc |-> IF errors = {} THEN None ELSE Some(<<"ValidationError">>),
              config |-> [BenchConfig(tasks, agents_) EXCEPT !.timeout =
                             IF IsNone(doc.timeout) THEN DefaultTimeout
                             ELSE Get(doc.timeout)]]

(***************************************************************************)
(* metrics.py                                                              *)
(***************************************************************************)
RunMetrics(agent_name, task_name) ==
    [agent_name |-> agent_name, task_name |-> task_name,
     passed |-> FALSE, wall_time_seconds |-> 0,
     tokens_in |-> None, tokens_out |-> None, cost_usd |-> None,
     llm_calls |-> None, timed_out |-> FALSE, error |-> None]

\* Mutant: an absent token count is taken as 0.
total_tokens_AbsentIsZero(r) ==
    IF IsNone(r.tokens_in) /\ IsNone(r.tokens_out) THEN None
    ELSE Some((IF IsNone(r.tokens_in) THEN 0 ELSE Get(r.tokens_in))
              + (IF IsNone(r.tokens_out) THEN 0 ELSE Get(r.tokens_out)))

\* RunMetrics.total_tokens
total_tokens(r) ==
    IF ~IsNone(r.tokens_in) /\ ~IsNone(r.tokens_out)
    THEN Some(Get(r.tokens_in) + Get(r.tokens_out))
    ELSE None

TaskSummary(agent_name, runs) == [agent_name |-> agent_name, runs |-> runs]

\* The quotient n / d of two integers, d > 0, kept exact.
Quotient(n, d) == <<n, d>>
Less(a, b) == a[1] * b[2] < b[1] * a[2]
Equal(a, b) == a[1] * b[2] = b[1] * a[2]

RECURSIVE sum(_)
sum(seq) == IF seq = <<>> THEN 0 ELSE Head(seq) + sum(Tail(seq))

\* TaskSummary.pass_count, total_count, pass_rate, avg_time, avg_cost.
pass_count(s) == Cardinality({k \in 1..Len(s.runs) : s.runs[k].passed})

total_count(s) == Len(s.runs)

pass_rate(s) ==
    IF total_count(s) > 0 THEN Quotient(pass_count(s), total_count(s))
    ELSE Quotient(0, 1)

avg_time(s) ==
    IF s.runs = <<>> THEN Quotient(0, 1)
    ELSE Quotient(sum([k \in 1..Len(s.runs) |-> s.runs[k].wall_time_seconds]),
                  Len(s.runs))

\* Mutant: the sum of the costs is divided by the number of all runs.
avg_cost_OverAllRuns(s) ==
    LET with_cost == SelectSeq(s.runs, LAMBDA r : ~IsNone(r.cost_usd))
        costs == [k \in 1..Len(with_cost) |-> Get(with_cost[k].cost_usd)]
    IN  IF costs = <<>> THEN None
        ELSE Some(Quotient(sum(costs), Len(s.runs)))

avg_cost(s) ==
    LET with_cost == SelectSeq(s.runs, LAMBDA r : ~IsNone(r.cost_usd))
        costs == [k \in 1..Len(with_cost) |-> Get(with_cost[k].cost_usd)]
    IN  IF costs = <<>> THEN None
        ELSE Some(Quotient(sum(costs), Len(costs)))

total_tokens_sum(s) ==
    LET with_total == SelectSeq(s.runs, LAMBDA r : ~IsNone(total_tokens(r)))
        totals == [k \in 1..Len(with_total) |-> Get(total_tokens(with_total[k]))]
    IN  IF totals = <<>> THEN None ELSE Some(sum(totals))

(***************************************************************************)
(* The text a command writes.  Only what the metric patterns can see of    *)
(* it is kept: for each metric, whether a configured pattern would match   *)
(* the text and, if so, whether the captured group is a number that        *)
(* int() / float() accept ("4,200") or not ("," or "1.2.3").               *)
(***************************************************************************)
Capture(parses, value) == [parses |-> parses, value |-> value]

NoOutput == [m \in MetricNames |-> None]

StatsOutput ==
    [m \in MetricNames |->
        Some(Capture(TRUE, CASE m = "tokens_in" -> 3
                             [] m = "tokens_out" -> 2
                             [] m = "cost" -> 1
                             [] OTHER -> 4))]

GarbledOutput == [StatsOutput EXCEPT !["tokens_out"] = Some(Capture(FALSE, 0))]

Outputs == {NoOutput, StatsOutput, GarbledOutput}

(***************************************************************************)
(* subprocess.run(command, shell=True, cwd=cwd, capture_output=True,       *)
(* text=True, timeout=timeout): the command completes with a return code   *)
(* and an output, or TimeoutExpired is raised, or another exception is     *)
(* raised (UnicodeDecodeError on undecodable output, OSError on spawn).    *)
(***************************************************************************)
Completed(returncode, out) ==
    [kind |-> "completed", returncode |-> returncode, out |-> out]
TimeoutExpired == [kind |-> "TimeoutExpired", returncode |-> 0, out |-> NoOutput]
OtherError == [kind |-> "UnicodeDecodeError", returncode |-> 0, out |-> NoOutput]

SubprocessOutcomes(outs) ==
    {Completed(c, o) : c \in ExitCodes, o \in outs} \cup {TimeoutExpired, OtherError}

\* The processes of a command run with shell=True: the shell, which is the
\* child of subprocess.run, and the processes the shell has started.
ProcessTree(descendants) == [shell |-> TRUE, descendants |-> descendants]

\* What subprocess.run does when the timeout expires: Popen.kill() sends
\* SIGKILL to its child, the shell, and waits for it.  The call is made
\* without start_new_session and no process group is signalled, so the
\* processes the shell has started are not touched.
kill(tree) == [tree EXCEPT !.shell = FALSE]

\* Number of processes of a tree that are running.
Alive(tree) == (IF tree.shell THEN 1 ELSE 0) + tree.descendants

\* Processes of a command that are running when the executor returns: none
\* after a command that completed (its output pipes were read to the end),
\* the survivors of kill after a timeout.
LeftRunning(proc, descendants) ==
    IF proc.kind = "TimeoutExpired" THEN Alive(kill(ProcessTree(descendants))) ELSE 0

(***************************************************************************)
(* agents/base.py                                                          *)
(***************************************************************************)
Agent(name, command_template, patterns) ==
    [name |-> name, command_template |-> command_template, patterns |-> patterns]

RECURSIVE replace(_, _, _)
\* text.replace(old, new): every occurrence of the piece `old`, from left to
\* right, gives way to `new`; what was put in is not searched again.
replace(text, old, new) ==
    IF text = <<>> THEN <<>>
    ELSE IF Head(text) = old THEN new \o replace(Tail(text), old, new)
    ELSE <<Head(text)>> \o replace(Tail(text), old, new)

\* Mutant: replace(old, new, 1), only the first occurrence.
build_command_FirstOnly(agent, prompt) ==
    LET t == agent.command_template
        first == CHOOSE k \in 1..(Len(t) + 1) :
                    /\ k <= Len(t) => t[k] = Placeholder
                    /\ \A i \in 1..(k - 1) : t[i] # Placeholder
    IN  IF first > Len(t) THEN t
        ELSE SubSeq(t, 1, first - 1) \o prompt \o SubSeq(t, first + 1, Len(t))

\* Agent.build_command(prompt)
build_command(agent, prompt) ==
    replace(agent.command_template, Placeholder, prompt)

AgentResult(stdout, stderr, exit_code, timed_out) ==
    [stdout |-> stdout, stderr |-> stderr, exit_code |-> exit_code,
     timed_out |-> timed_out, tokens_in |-> None, tokens_out |-> None,
     cost_usd |-> None, llm_calls |-> None]

\* Mutant: a metric without pattern or without match is reported as 0.
ParseOne_ZeroWhenMissing(patterns, out, m) ==
    IF patterns[m] /\ ~IsNone(out[m])
    THEN [exc |-> ~Get(out[m]).parses, val |-> Some(Get(out[m]).value)]
    ELSE [exc |-> FALSE, val |-> Some(0)]

\* One metric of _parse_output: absent without pattern or without match,
\* otherwise the converted capture; the conversion raises ValueError on a
\* capture that is no number.
ParseOne(patterns, out, m) ==
    IF patterns[m] /\ ~IsNone(out[m])
    THEN [exc |-> ~Get(out[m]).parses, val |-> Some(Get(out[m]).value)]
    ELSE [exc |-> FALSE, val |-> None]

\* Agent._parse_output: the dict of extracted metrics, or the exception.
_parse_output(patterns, out) ==
    LET ti == ParseOne(patterns, out, "tokens_in")
        to == ParseOne(patterns, out, "tokens_out")
        co == ParseOne(patterns, out, "cost")
        lc == ParseOne(patterns, out, "llm_calls")
    IN  [exc |-> IF ti.exc \/ to.exc \/ co.exc \/ lc.exc
                 THEN Some(<<"ValueError">>) ELSE None,
         tokens_in |-> ti.val, tokens_out |-> to.val,
         cost_usd |-> co.val, llm_calls |-> lc.val]

\* Mutant: Agent.run without its `except subprocess.TimeoutExpired` clause.
Agent_run_TimeoutRaises(agent, proc, t) ==
    IF proc.kind # "completed"
    THEN [exc |-> Some(<<proc.kind>>), result |-> AgentResult(NoOutput, <<>>, 0, FALSE)]
    ELSE LET result == AgentResult(proc.out, <<>>, proc.returncode, FALSE)
         IN  IF IsNone(agent.patterns)
             THEN [exc |-> None, result |-> result]
             ELSE LET parsed == _parse_output(Get(agent.patterns), proc.out)
                  IN  [exc |-> parsed.exc,
                       result |-> [result EXCEPT
                                     !.tokens_in = parsed.tokens_in,
                                     !.tokens_out = parsed.tokens_out,
                                     !.cost_usd = parsed.cost_usd,
                                     !.llm_calls = parsed.llm_calls]]

\* Mutant: the output is searched with default patterns when the agent
\* declares none.
Agent_run_AlwaysParses(agent, proc, t) ==
    IF proc.kind = "TimeoutExpired"
    THEN [exc |-> None,
          result |-> AgentResult(NoOutput, <<"Agent timed out after", t, "s">>, -1, TRUE)]
    ELSE IF proc.kind # "completed"
    THEN [exc |-> Some(<<proc.kind>>), result |-> AgentResult(NoOutput, <<>>, 0, FALSE)]
    ELSE LET result == AgentResult(proc.out, <<>>, proc.returncode, FALSE)
             parsed == _parse_output(IF IsNone(agent.patterns)
                                     THEN MetricPatterns(MetricNames)
                                     ELSE Get(agent.patterns), proc.out)
         IN  [exc |-> parsed.exc,
              result |-> [result EXCEPT
                            !.tokens_in = parsed.tokens_in,
                            !.tokens_out = parsed.tokens_out,
                            !.cost_usd = parsed.cost_usd,
                            !.llm_calls = parsed.llm_calls]]

\* Agent.run on the outcome `proc` of its subprocess.run call:
\* [exc |-> the exception that leaves Agent.run, result |-> the AgentResult].
Agent_run(agent, proc, t) ==
    IF proc.kind = "TimeoutExpired"
    THEN [exc |-> None,
          result |-> AgentResult(NoOutput, <<"Agent timed out after", t, "s">>, -1, TRUE)]
    ELSE IF proc.kind # "completed"
    THEN [exc |-> Some(<<proc.kind>>), result |-> AgentResult(NoOutput, <<>>, 0, FALSE)]
    ELSE LET result == AgentResult(proc.out, <<>>, proc.returncode, FALSE)
         IN  IF IsNone(agent.patterns)
             THEN [exc |-> None, result |-> result]
             ELSE LET parsed == _parse_output(Get(agent.patterns), proc.out)
                  IN  [exc |-> parsed.exc,
                       result |-> [result EXCEPT
                                     !.tokens_in = parsed.tokens_in,
                                     !.tokens_out = parsed.tokens_out,
                                     !.cost_usd = parsed.cost_usd,
                                     !.llm_calls = parsed.llm_calls]]

(***************************************************************************)
(* validator.py                                                            *)
(***************************************************************************)
ValidationResult(passed, exit_code, stderr, duration_seconds, timed_out) ==
    [passed |-> passed, exit_code |-> exit_code, stderr |-> stderr,
     duration_seconds |-> duration_seconds, timed_out |-> timed_out]

\* Mutant: only exit code 1 counts as a failed validation.
run_validation_OnlyOneFails(proc, t, duration) ==
    IF proc.kind = "completed"
    THEN [exc |-> None,
          result |-> ValidationResult(proc.returncode # 1, proc.returncode, <<>>, duration, FALSE)]
    ELSE IF proc.kind = "TimeoutExpired"
    THEN [exc |-> None,
          result |-> ValidationResult(FALSE, -1,
                        <<"Validation timed out after", t, "s">>, duration, TRUE)]
    ELSE [exc |-> Some(<<proc.kind>>),
          result |-> ValidationResult(FALSE, 0, <<>>, 0, FALSE)]

\* Mutant: a validation that timed out is reported as passed.
run_validation_TimeoutPasses(proc, t, duration) ==
    IF proc.kind = "completed"
    THEN [exc |-> None,
          result |-> ValidationResult(proc.returncode = 0, proc.returncode, <<>>, duration, FALSE)]
    ELSE IF proc.kind = "TimeoutExpired"
    THEN [exc |-> None,
          result |-> ValidationResult(TRUE, -1,
                        <<"Validation timed out after", t, "s">>, duration, TRUE)]
    ELSE [exc |-> Some(<<proc.kind>>),
          result |-> ValidationResult(FALSE, 0, <<>>, 0, FALSE)]

\* run_validation on the outcome `proc` of its subprocess.run call, which
\* took `duration` on the monotonic clock.
run_validation(proc, t, duration) ==
    IF proc.kind = "completed"
    THEN [exc |-> None,
          result |-> ValidationResult(proc.returncode = 0, proc.returncode, <<>>, duration, FALSE)]
    ELSE IF proc.kind = "TimeoutExpired"
    THEN [exc |-> None,
          result |-> ValidationResult(FALSE, -1,
                        <<"Validation timed out after", t, "s">>, duration, TRUE)]
    ELSE [exc |-> Some(<<proc.kind>>),
          result |-> ValidationResult(FALSE, 0, <<>>, 0, FALSE)]

(***************************************************************************)
(* sandbox.py                                                              *)
(***************************************************************************)
\* is_git_repo(project_path): `git rev-parse --git-dir` succeeds.
is_git_repo == git_repo

exists(path) == fs[path] # "absent"

\* run_id = uuid.uuid4().hex[:12]: a random identifier.  It is the path of a
\* directory that exists (a collision) or of none; the identifiers without
\* directory are interchangeable, so the least of them stands for all.
uuid4 ==
    LET free == {p \in RunIds : ~exists(p)}
    IN  {p \in RunIds : exists(p)} \cup
        {p \in free : \A q \in free : p <= q}

\* _create_worktree: `git worktree add <path> --detach <ref>`.  The command
\* fails when the environment makes it fail (git_fails) and when the path
\* already exists.  [exc, fs]: the RuntimeError raised or None, and the
\* directories afterwards.
_create_worktree(run_id, git_fails) ==
    IF git_fails \/ exists(run_id)
    THEN [exc |-> Some(<<"RuntimeError", "Failed to create worktree at", run_id>>),
          fs |-> fs]
    ELSE [exc |-> None, fs |-> [fs EXCEPT ![run_id] = "worktree"]]

\* Mutant: copytree called with dirs_exist_ok=True.
_create_temp_copy_DirsExistOk(run_id, copy_fails, left_behind) ==
    IF copy_fails
    THEN [exc |-> Some(<<"shutil.Error", run_id>>),
          fs |-> IF left_behind THEN [fs EXCEPT ![run_id] = "copy"] ELSE fs]
    ELSE [exc |-> None, fs |-> [fs EXCEPT ![run_id] = "copy"]]

\* _create_temp_copy: shutil.copytree(project_path, sandbox_path, ignore=...).
\* copytree raises FileExistsError when the destination exists and
\* shutil.Error when a file cannot be copied; in the second case the
\* destination directory has been created (left_behind) or not.
_create_temp_copy(run_id, copy_fails, left_behind) ==
    IF exists(run_id)
    THEN [exc |-> Some(<<"FileExistsError", run_id>>), fs |-> fs]
    ELSE IF copy_fails
    THEN [exc |-> Some(<<"shutil.Error", run_id>>),
          fs |-> IF left_behind THEN [fs EXCEPT ![run_id] = "copy"] ELSE fs]
    ELSE [exc |-> None, fs |-> [fs EXCEPT ![run_id] = "copy"]]

\* The content of a directory tree: the state of the project's files in it
\* ("project": as in the project root, "modified": changed by a command,
\* "partial": an interrupted copy) and the sandbox directories nested in it
\* under .agentarena/worktrees.
Tree(src, nested) == [src |-> src, nested |-> nested]

\* `git worktree add <path> --detach <ref>` checks out the files of the
\* ref; the sandbox directories are no files of the repository.
worktree_add(project_src, sandboxes) == Tree(project_src, {})

\* Mutant: copytree without ".agentarena" among its ignore patterns.
copytree_NoIgnore(project_src, sandboxes) == Tree(project_src, sandboxes)

\* shutil.copytree(project_path, sandbox_path, ignore=ignore_patterns(".git",
\* ".agentarena", ...)): the project's files without the sandbox directories
\* that exist under the project root.
copytree(project_src, sandboxes) == Tree(project_src, {})

\* The content of the directory that create_sandbox has made.
SandboxTree(left_behind) ==
    LET sandboxes == {p \in RunIds : exists(p)}
    IN  IF is_git_repo THEN worktree_add(files.project, sandboxes)
        ELSE IF left_behind THEN Tree("partial", {})
        ELSE copytree(files.project, sandboxes)

\* The files after a creation that left the directories `dirs`: a directory
\* that was made holds `made`.
FilesAfterCreation(dirs, made) ==
    [files EXCEPT !.sandbox =
        [p \in RunIds |->
            IF dirs[p] # "absent" /\ fs[p] = "absent" THEN Some(made)
            ELSE files.sandbox[p]]]

\* The files after a removal that left the directories `dirs`.
FilesAfterRemoval(dirs) ==
    [files EXCEPT !.sandbox =
        [p \in RunIds |-> IF dirs[p] = "absent" THEN None ELSE files.sandbox[p]]]

\* A command that writes in its working directory.
Write(f, cwd) ==
    IF IsNone(f.sandbox[cwd]) THEN f
    ELSE [f EXCEPT !.sandbox[cwd] = Some([Get(@) EXCEPT !.src = "modified"])]

\* create_sandbox: picks the strategy from is_git_repo.
create_sandbox(run_id, fails, left_behind) ==
    IF is_git_repo
    THEN _create_worktree(run_id, fails)
    ELSE _create_temp_copy(run_id, fails, left_behind)

\* _cleanup_worktree: `git worktree remove <path> --force`; when that fails
\* (the environment makes it fail, or the path is no worktree of the
\* repository), `git worktree prune`, whose CalledProcessError is not caught.
\* [exc, fs, cmds]: the exception that leaves, the directories afterwards and
\* the commands issued.
_cleanup_worktree(path, remove_fails, prune_fails) ==
    IF ~remove_fails /\ fs[path] = "worktree"
    THEN [exc |-> None, fs |-> [fs EXCEPT ![path] = "absent"],
          cmds |-> <<"git worktree remove">>]
    ELSE [exc |-> IF prune_fails THEN Some(<<"CalledProcessError">>) ELSE None,
          fs |-> fs,
          cmds |-> <<"git worktree remove", "git worktree prune">>]

\* _cleanup_temp_copy: shutil.rmtree(sandbox_path, ignore_errors=True).
_cleanup_temp_copy(path, remove_fails) ==
    [exc |-> None,
     fs |-> IF remove_fails THEN fs ELSE [fs EXCEPT ![path] = "absent"],
     cmds |-> <<"rmtree">>]

\* Mutant: cleanup_sandbox without its `if not sandbox_path.exists(): return`.
cleanup_sandbox_NoExistsCheck(path, remove_fails, prune_fails) ==
    IF is_git_repo
    THEN _cleanup_worktree(path, remove_fails, prune_fails)
    ELSE _cleanup_temp_copy(path, remove_fails)

\* cleanup_sandbox(project_path, sandbox_path): nothing is done for a path
\* that does not exist; otherwise the strategy is picked from is_git_repo.
cleanup_sandbox(path, remove_fails, prune_fails) ==
    IF ~exists(path)
    THEN [exc |-> None, fs |-> fs, cmds |-> <<>>]
    ELSE IF is_git_repo
    THEN _cleanup_worktree(path, remove_fails, prune_fails)
    ELSE _cleanup_temp_copy(path, remove_fails)

(***************************************************************************)
(* reporter.py                                                             *)
(***************************************************************************)
\* `s.avg_cost or float("inf")`: the average cost, or infinity (None here)
\* when the average cost is None or 0.0, which are both falsy.
CostKey(s) ==
    IF IsNone(avg_cost(s)) \/ Get(avg_cost(s))[1] = 0 THEN None ELSE avg_cost(s)

CostKeyLess(a, b) == ~IsNone(a) /\ (IsNone(b) \/ Less(Get(a), Get(b)))

\* Mutant: the sort key without the pass rate.
KeyLess_WithoutPassRate(a, b) ==
    \/ CostKeyLess(CostKey(a), CostKey(b))
    \/ /\ ~CostKeyLess(CostKey(b), CostKey(a))
       /\ Less(avg_time(a), avg_time(b))

\* Mutant: the sort key without the average time.
KeyLess_WithoutTime(a, b) ==
    \/ Less(pass_rate(b), pass_rate(a))
    \/ /\ Equal(pass_rate(a), pass_rate(b))
       /\ CostKeyLess(CostKey(a), CostKey(b))

\* The order of the keys (-s.pass_rate, s.avg_cost or float("inf"),
\* s.avg_time): tuples compare component by component.
KeyLess(a, b) ==
    \/ Less(pass_rate(b), pass_rate(a))
    \/ /\ Equal(pass_rate(a), pass_rate(b))
       /\ \/ CostKeyLess(CostKey(a), CostKey(b))
          \/ /\ ~CostKeyLess(CostKey(b), CostKey(a))
             /\ Less(avg_time(a), avg_time(b))

RECURSIVE Insert(_, _)
\* x put into the sorted list behind every element that is not above it.
Insert(x, seq) ==
    IF seq = <<>> THEN <<x>>
    ELSE IF KeyLess(x, seq[Len(seq)])
         THEN Append(Insert(x, SubSeq(seq, 1, Len(seq) - 1)), seq[Len(seq)])
         ELSE Append(seq, x)

RECURSIVE sorted(_)
\* sorted(summaries, key=...): ascending and stable.
sorted(seq) ==
    IF seq = <<>> THEN <<>>
    ELSE Insert(seq[Len(seq)], sorted(SubSeq(seq, 1, Len(seq) - 1)))

\* Mutant: the first summary is returned without sorting.
_pick_winner_Unsorted(summs) ==
    IF summs = <<>> THEN None ELSE Some(summs[1])

_pick_winner(summs) ==
    IF summs = <<>> THEN None ELSE Some(sorted(summs)[1])

(***************************************************************************)
(* history.py                                                              *)
(***************************************************************************)
\* round(x, 2) of a quotient that is not negative, in hundredths: the nearest
\* hundredth, the even one of two that are equally near.
Round2(q) ==
    LET h == (100 * q[1]) \div q[2]
        r == (100 * q[1]) % q[2]
    IN  Quotient(IF 2 * r < q[2] THEN h
                 ELSE IF 2 * r > q[2] THEN h + 1
                 ELSE IF h % 2 = 0 THEN h ELSE h + 1,
                 100)

\* The order of the keys (-s.pass_rate, s.avg_cost or float("inf")) of
\* save_run.
HistoryKeyLess(a, b) ==
    \/ Less(pass_rate(b), pass_rate(a))
    \/ /\ Equal(pass_rate(a), pass_rate(b))
       /\ CostKeyLess(CostKey(a), CostKey(b))

RECURSIVE HistoryInsert(_, _)
HistoryInsert(x, seq) ==
    IF seq = <<>> THEN <<x>>
    ELSE IF HistoryKeyLess(x, seq[Len(seq)])
         THEN Append(HistoryInsert(x, SubSeq(seq, 1, Len(seq) - 1)), seq[Len(seq)])
         ELSE Append(seq, x)

RECURSIVE HistorySorted(_)
\* sorted(summaries, key=...) of save_run: ascending and stable.
HistorySorted(seq) ==
    IF seq = <<>> THEN <<>>
    ELSE HistoryInsert(seq[Len(seq)], HistorySorted(SubSeq(seq, 1, Len(seq) - 1)))

\* One entry of the "summary" list of the history file.
SummaryEntry(s) ==
    [agent |-> s.agent_name,
     pass_count |-> pass_count(s),
     total_count |-> total_count(s),
     pass_rate |-> Round2(pass_rate(s)),
     avg_time |-> Round2(avg_time(s)),
     avg_cost |-> IF IsNone(avg_cost(s)) THEN None ELSE Some(Round2(Get(avg_cost(s)))),
     total_tokens |-> total_tokens_sum(s)]

\* save_run(project_path, config_project, all_runs, summaries): the data
\* written to the history file.
save_run(runs, summs) ==
    [num_tasks |-> Cardinality({runs[k].task_name : k \in 1..Len(runs)}),
     num_agents |-> Cardinality({runs[k].agent_name : k \in 1..Len(runs)}),
     winner |-> IF summs = <<>> THEN None
                ELSE Some(HistorySorted(summs)[1].agent_name),
     summary |-> [j \in 1..Len(summs) |-> SummaryEntry(summs[j])],
     runs |-> runs]

(***************************************************************************)
(* runner.py                                                               *)
(***************************************************************************)
_build_agent(agent_config) ==
    Agent(agent_config.name, agent_config.command, agent_config.patterns)

agents == [j \in 1..Len(config.agents) |-> _build_agent(config.agents[j])]

RECURSIVE SelectRuns(_, _)
\* [r for r in runs if r.agent_name == name]
SelectRuns(runs, name) ==
    IF runs = <<>> THEN <<>>
    ELSE IF Head(runs).agent_name = name
         THEN <<Head(runs)>> \o SelectRuns(Tail(runs), name)
         ELSE SelectRuns(Tail(runs), name)

\* Mutant: the records are not filtered by agent name.
_build_summaries_Unfiltered(runs, ags) ==
    [j \in 1..Len(ags) |-> TaskSummary(ags[j].name, runs)]

_build_summaries(runs, ags) ==
    [j \in 1..Len(ags) |-> TaskSummary(ags[j].name, SelectRuns(runs, ags[j].name))]

Faulty(b) == IF b THEN 1 ELSE 0

Event(callee, path, proc, exc) ==
    <<callee, path, proc.kind, proc.returncode,
      IF IsNone(exc) THEN "" ELSE Get(exc)[1]>>

NoProc == [kind |-> "", returncode |-> 0]

\* The event of a call that a clock measured, with the time it took.
Timed(event, elapsed) == Append(event, elapsed)

\* Mutant: the early return of a timed-out agent bypasses the finally block.
AfterAgent_ReturnsEarly(timed_out) == IF timed_out THEN "returned" ELSE "validate"

\* Mutant: no short-circuit, validation runs after a timed-out agent too.
AfterAgent_AlwaysValidates(timed_out) == "validate"

\* Mutant: a timed-out agent is invoked again.
AfterAgent_Retries(timed_out) == IF timed_out THEN "agent" ELSE "validate"

\* _run_single, lines 71-73 and 90-92: a timed-out agent returns from inside
\* the try block, so the finally block runs next; otherwise validation.
AfterAgent(timed_out) == IF timed_out THEN "cleanup" ELSE "validate"

\* Mutant: a validation timeout is not copied into the record.
TimedOutAfterValidation_Kept(timed_out, validation_timed_out) == timed_out

\* _run_single, lines 83-84: `if validation.timed_out: metrics.timed_out = True`.
TimedOutAfterValidation(timed_out, validation_timed_out) ==
    IF validation_timed_out THEN TRUE ELSE timed_out

\* Mutant: the duration of the validation is added to the wall time.
ValidationMetrics_AddsDuration(m, result) ==
    [m EXCEPT !.passed = result.passed,
              !.wall_time_seconds = @ + result.duration_seconds,
              !.timed_out = TimedOutAfterValidation(@, result.timed_out)]

\* _run_single, lines 81-84: the verdict of the validation in the record.
ValidationMetrics(m, result) ==
    [m EXCEPT !.passed = result.passed,
              !.timed_out = TimedOutAfterValidation(@, result.timed_out)]

\* _run_single, lines 48-57: the effective timeout, a fresh RunMetrics and
\* create_sandbox.  A RuntimeError is recorded and the record returned; any
\* other exception leaves _run_single and run_benchmark.
CreateSandbox ==
    /\ pc = "loop"
    /\ LET task == config.tasks[task_idx]
           agent == agents[agent_idx]
           m == RunMetrics(agent.name, task.name)
       IN  \E run_id \in uuid4, fails \in BOOLEAN, left_behind \in BOOLEAN :
             /\ fails => faults < MaxFaults
             /\ left_behind => fails /\ ~is_git_repo /\ ~exists(run_id)
             /\ LET r == create_sandbox(run_id, fails, left_behind)
                IN  /\ fs' = r.fs
                    /\ files' = FilesAfterCreation(r.fs, SandboxTree(left_behind))
                    /\ faults' = faults + Faulty(fails)
                    /\ timeout' = EffectiveTimeout(task, config.timeout)
                    /\ trace' = <<Event("create_sandbox", run_id, NoProc, r.exc)>>
                    /\ IF IsNone(r.exc)
                       THEN /\ sandbox_path' = Some(run_id)
                            /\ metrics' = Some(m)
                            /\ pc' = "agent"
                            /\ raised' = raised
                       ELSE IF Get(r.exc)[1] = "RuntimeError"
                       THEN /\ sandbox_path' = None
                            /\ metrics' = Some([m EXCEPT !.error =
                                   Some(<<"Sandbox creation failed">> \o Get(r.exc))])
                            /\ pc' = "returned"
                            /\ raised' = raised
                       ELSE /\ sandbox_path' = None
                            /\ metrics' = Some(m)
                            /\ pc' = "raised"
                            /\ raised' = r.exc
    /\ UNCHANGED <<options, config, env, command, saved, git_repo, running, task_idx, agent_idx,
                   agent_result, validation, all_runs, summaries, winner>>

\* _run_single, lines 59-73 and 86-88: agent.run under the Timer, the copy of
\* its result into the record and the timeout short-circuit.  The command is
\* untrusted: it may write in its working directory (writes), remove it
\* (removes_cwd) and start processes (descendants).
RunAgent ==
    /\ pc = "agent"
    /\ LET agent == agents[agent_idx]
           m == Get(metrics)
           cwd == Get(sandbox_path)
       IN  \E proc \in SubprocessOutcomes(env.outputs), elapsed \in env.elapsed,
              removes_cwd \in BOOLEAN, writes \in env.writes,
              descendants \in env.descendants :
             LET r == Agent_run(agent, proc, timeout)
                 env_fault == proc.kind = "UnicodeDecodeError" \/ removes_cwd
             IN  /\ env_fault => faults < MaxFaults
                 /\ removes_cwd => proc.kind = "completed" /\ ~writes
                 /\ writes => proc.kind # "UnicodeDecodeError"
                 /\ descendants > 0 => proc.kind = "TimeoutExpired"
                 /\ faults' = faults + Faulty(env_fault)
                 /\ command' = Some(build_command(agent, config.tasks[task_idx].prompt))
                 /\ fs' = IF removes_cwd THEN [fs EXCEPT ![cwd] = "absent"] ELSE fs
                 /\ files' = IF writes THEN Write(files, cwd)
                             ELSE FilesAfterRemoval(fs')
                 /\ running' = running + LeftRunning(proc, descendants)
                 /\ trace' = Append(trace,
                        Timed(Event("agent.run", cwd, proc, r.exc), elapsed))
                 /\ IF ~IsNone(r.exc)
                    THEN /\ metrics' = Some([m EXCEPT !.error = r.exc])
                         /\ agent_result' = None
                         /\ pc' = "cleanup"
                    ELSE /\ agent_result' = Some(r.result)
                         /\ metrics' = Some([m EXCEPT
                                !.wall_time_seconds = elapsed,
                                !.tokens_in = r.result.tokens_in,
                                !.tokens_out = r.result.tokens_out,
                                !.cost_usd = r.result.cost_usd,
                                !.llm_calls = r.result.llm_calls,
                                !.timed_out = r.result.timed_out,
                                !.passed = IF r.result.timed_out THEN FALSE ELSE @])
                         /\ pc' = AfterAgent(r.result.timed_out)
    /\ UNCHANGED <<options, config, env, saved, git_repo, task_idx, agent_idx, timeout,
                   sandbox_path, validation, all_runs, summaries, winner, raised>>

\* _run_single, lines 75-88: run_validation in the sandbox and the copy of
\* its verdict into the record.  subprocess.run raises FileNotFoundError
\* when the working directory is gone.
Validate ==
    /\ pc = "validate"
    /\ LET m == Get(metrics)
           cwd == Get(sandbox_path)
       IN  \E proc \in SubprocessOutcomes({NoOutput}), writes \in env.writes,
              descendants \in env.descendants, duration \in env.elapsed :
             LET gone == ~exists(cwd)
                 r == IF gone
                      THEN [exc |-> Some(<<"FileNotFoundError">>),
                            result |-> ValidationResult(FALSE, 0, <<>>, 0, FALSE)]
                      ELSE run_validation(proc, timeout, duration)
                 env_fault == ~gone /\ proc.kind = "UnicodeDecodeError"
             IN  /\ env_fault => faults < MaxFaults
                 /\ gone => proc = OtherError
                 /\ proc = OtherError => duration = MaxElapsed
                 /\ writes => proc.kind # "UnicodeDecodeError"
                 /\ descendants > 0 => proc.kind = "TimeoutExpired"
                 /\ faults' = faults + Faulty(env_fault)
                 /\ files' = IF writes THEN Write(files, cwd) ELSE files
                 /\ running' = running + LeftRunning(proc, descendants)
                 /\ trace' = Append(trace,
                        Timed(Event("run_validation", cwd,
                                    IF gone THEN NoProc ELSE proc, r.exc),
                              duration))
                 /\ IF ~IsNone(r.exc)
                    THEN /\ metrics' = Some([m EXCEPT !.error = r.exc])
                         /\ validation' = None
                    ELSE /\ validation' = Some(r.result)
                         /\ metrics' = Some(ValidationMetrics(m, r.result))
                 /\ pc' = "cleanup"
    /\ UNCHANGED <<options, config, env, command, saved, git_repo, fs, task_idx, agent_idx, timeout,
                   sandbox_path, agent_result, all_runs, summaries, winner, raised>>

\* _run_single, lines 90-94: the finally block and the return.  An exception
\* of cleanup_sandbox leaves _run_single and run_benchmark.
Cleanup ==
    /\ pc = "cleanup"
    /\ \E remove_fails \in BOOLEAN, prune_fails \in BOOLEAN :
         LET path == Get(sandbox_path)
             r == cleanup_sandbox(path, remove_fails, prune_fails)
             n == Faulty(remove_fails) + Faulty(prune_fails)
         IN  /\ faults + n <= MaxFaults
             /\ remove_fails => exists(path)
             /\ prune_fails => Len(r.cmds) = 2
             /\ faults' = faults + n
             /\ fs' = r.fs
             /\ files' = FilesAfterRemoval(r.fs)
             /\ trace' = Append(trace, Event("cleanup_sandbox", path, NoProc, r.exc))
                           \o [k \in 1..Len(r.cmds) |-> Event(r.cmds[k], path, NoProc, None)]
             /\ IF IsNone(r.exc)
                THEN /\ pc' = "returned"
                     /\ raised' = raised
                ELSE /\ pc' = "raised"
                     /\ raised' = r.exc
    /\ UNCHANGED <<options, config, env, command, saved, git_repo, running, task_idx, agent_idx, timeout,
                   metrics, sandbox_path, agent_result, validation, all_runs,
                   summaries, winner>>

\* Mutant: the loops are nested the other way round (agents outer, tasks
\* inner).
AppendRun_AgentsOuter ==
    /\ pc = "returned"
    /\ all_runs' = Append(all_runs, Get(metrics))
    /\ IF task_idx < Len(config.tasks)
       THEN /\ task_idx' = task_idx + 1
            /\ UNCHANGED agent_idx
            /\ pc' = "loop"
       ELSE IF agent_idx < Len(config.agents)
       THEN /\ task_idx' = 1
            /\ agent_idx' = agent_idx + 1
            /\ pc' = "loop"
       ELSE /\ UNCHANGED <<task_idx, agent_idx>>
            /\ pc' = "summaries"
    /\ metrics' = None
    /\ sandbox_path' = None
    /\ agent_result' = None
    /\ command' = None
    /\ validation' = None
    /\ trace' = <<>>
    /\ UNCHANGED <<options, config, env, saved, git_repo, fs, files, running, faults, timeout,
                   summaries, winner, raised>>

\* Mutant: one RunMetrics object serves every pair, so that the records of
\* the finished pairs change with the current one.
AppendRun_SharedRecord ==
    /\ pc = "returned"
    /\ all_runs' = [k \in 1..(Len(all_runs) + 1) |-> Get(metrics)]
    /\ IF agent_idx < Len(config.agents)
       THEN /\ agent_idx' = agent_idx + 1
            /\ UNCHANGED task_idx
            /\ pc' = "loop"
       ELSE IF task_idx < Len(config.tasks)
       THEN /\ agent_idx' = 1
            /\ task_idx' = task_idx + 1
            /\ pc' = "loop"
       ELSE /\ UNCHANGED <<task_idx, agent_idx>>
            /\ pc' = "summaries"
    /\ metrics' = None
    /\ sandbox_path' = None
    /\ agent_result' = None
    /\ command' = None
    /\ validation' = None
    /\ trace' = <<>>
    /\ UNCHANGED <<options, config, env, saved, git_repo, fs, files, running, faults, timeout,
                   summaries, winner, raised>>

\* run_benchmark, lines 118-132: the record returned by _run_single is
\* appended and the loops advance (tasks outer, agents inner).
AppendRun ==
    /\ pc = "returned"
    /\ all_runs' = Append(all_runs, Get(metrics))
    /\ IF agent_idx < Len(config.agents)
       THEN /\ agent_idx' = agent_idx + 1
            /\ UNCHANGED task_idx
            /\ pc' = "loop"
       ELSE IF task_idx < Len(config.tasks)
       THEN /\ agent_idx' = 1
            /\ task_idx' = task_idx + 1
            /\ pc' = "loop"
       ELSE /\ UNCHANGED <<task_idx, agent_idx>>
            /\ pc' = "summaries"
    /\ metrics' = None
    /\ sandbox_path' = None
    /\ agent_result' = None
    /\ command' = None
    /\ validation' = None
    /\ trace' = <<>>
    /\ UNCHANGED <<options, config, env, saved, git_repo, fs, files, running, faults, timeout,
                   summaries, winner, raised>>

\* Mutant: the summaries are built inside the loops, before the next pair.
Finish_Early ==
    /\ pc \in {"summaries", "loop"}
    /\ summaries' = Some(_build_summaries(all_runs, agents))
    /\ winner' = None
    /\ pc' = "print_summary"
    /\ UNCHANGED <<options, config, env, command, saved, git_repo, fs, files, running, faults, task_idx,
                   agent_idx, timeout, metrics, sandbox_path, agent_result,
                   validation, trace, all_runs, raised>>

\* run_benchmark, lines 143-144: the summaries are built after the loops.
Finish ==
    /\ pc = "summaries"
    /\ summaries' = Some(_build_summaries(all_runs, agents))
    /\ winner' = None
    /\ pc' = "print_summary"
    /\ UNCHANGED <<options, config, env, command, saved, git_repo, fs, files, running, faults, task_idx,
                   agent_idx, timeout, metrics, sandbox_path, agent_result,
                   validation, trace, all_runs, raised>>

\* run_benchmark, line 145: print_summary(summaries), which picks the
\* winner.
PrintSummary ==
    /\ pc = "print_summary"
    /\ winner' = _pick_winner(Get(summaries))
    /\ pc' = "save_run"
    /\ UNCHANGED <<options, config, env, command, saved, git_repo, fs, files, running, faults, task_idx,
                   agent_idx, timeout, metrics, sandbox_path, agent_result,
                   validation, trace, all_runs, summaries, raised>>

\* run_benchmark, lines 147-151: save_run and the return of the list of
\* records.  An OSError of the write leaves save_run and run_benchmark.
SaveRun ==
    /\ pc = "save_run"
    /\ \E write_fails \in BOOLEAN :
         /\ write_fails => faults < MaxFaults
         /\ faults' = faults + Faulty(write_fails)
         /\ IF write_fails
            THEN /\ saved' = saved
                 /\ raised' = Some(<<"OSError">>)
                 /\ pc' = "raised"
            ELSE /\ saved' = Some(save_run(all_runs, Get(summaries)))
                 /\ raised' = raised
                 /\ pc' = "done"
    /\ UNCHANGED <<options, config, env, command, git_repo, fs, files, running, task_idx,
                   agent_idx, timeout, metrics, sandbox_path, agent_result,
                   validation, trace, all_runs, summaries, winner>>

(***************************************************************************)
(* cli.py                                                                  *)
(***************************************************************************)
\* The options of `agentarena run`: --timeout (absent or an integer), the
\* names given with --task and the values given with --agent, each a name
\* or "name:command" (command present).
Options(timeout_option, task, agent) ==
    [timeout |-> timeout_option, task |-> task, agent |-> agent]

NoOptions == Options(None, <<>>, <<>>)

Flag(name, command_template) == [name |-> name, command |-> command_template]

RECURSIVE filtered(_, _)
\* run, lines 136-152: the agents of the --agent values, in their order: a
\* "name:command" value gives a new agent, a name gives the agents of the
\* configuration with that name.
filtered(cfg, agent) ==
    IF agent = <<>> THEN <<>>
    ELSE LET a == Head(agent)
         IN  (IF ~IsNone(a.command)
              THEN <<AgentConfig(a.name, Get(a.command), None)>>
              ELSE SelectSeq(cfg.agents, LAMBDA ag : ag.name = a.name))
             \o filtered(cfg, Tail(agent))

\* run, lines 120-153: the options applied to the loaded configuration with
\* model_copy(update=...), which validates nothing: [exc |-> SystemExit(1)
\* for an unknown task, an unknown agent or a "name:command" value that
\* AgentConfig rejects, config |-> the configuration for run_benchmark].
run_options(cfg, opts) ==
    LET timed == IF IsNone(opts.timeout) THEN cfg
                 ELSE [cfg EXCEPT !.timeout = Get(opts.timeout)]
        matching == SelectSeq(cfg.tasks,
                        LAMBDA t : \E k \in 1..Len(opts.task) : opts.task[k] = t.name)
        missing == {opts.task[k] : k \in 1..Len(opts.task)}
                     \ {matching[k].name : k \in 1..Len(matching)}
        bad_flag == \E k \in 1..Len(opts.agent) :
                       LET a == opts.agent[k]
                       IN  IF ~IsNone(a.command)
                           THEN ~Contains(Get(a.command), Placeholder)
                           ELSE \A j \in 1..Len(cfg.agents) : cfg.agents[j].name # a.name
    IN  [exc |-> IF missing # {} \/ bad_flag THEN Some(<<"SystemExit", 1>>) ELSE None,
         config |-> [timed EXCEPT
                       !.tasks = IF opts.task = <<>> THEN @ ELSE matching,
                       !.agents = IF opts.agent = <<>> THEN @
                                  ELSE filtered(cfg, opts.agent)]]

\* cli.py, run, lines 107-156: load_config on the content of bench.yaml,
\* then the options; every exception ends the command with SystemExit(1),
\* otherwise run_benchmark starts on the resulting configuration.
LoadConfig ==
    /\ pc = "load_config"
    /\ LET r == load_config(config)
           o == run_options(r.config, options)
       IN  IF IsNone(r.exc) /\ IsNone(o.exc)
           THEN /\ config' = o.config
                /\ raised' = raised
                /\ pc' = "loop"
           ELSE /\ config' = config
                /\ raised' = Some(<<"SystemExit", 1>>)
                /\ pc' = "raised"
    /\ UNCHANGED <<options, env, command, saved, git_repo, fs, files, running, faults, task_idx,
                   agent_idx, timeout, metrics, sandbox_path, agent_result,
                   validation, trace, all_runs, summaries, winner>>

\* The environment: the version-control status of the project root changes
\* while a command of a pair runs (is_git_repo reads it at every call).
VcsChange ==
    /\ pc \in {"agent", "validate"}
    /\ faults < MaxFaults
    /\ faults' = faults + 1
    /\ git_repo' = ~git_repo
    /\ UNCHANGED <<options, config, env, command, saved, fs, files, running, pc, task_idx, agent_idx,
                   timeout, metrics, sandbox_path, agent_result, validation,
                   trace, all_runs, summaries, winner, raised>>

(***************************************************************************)
(* The configurations: what BenchConfig accepts (at least one task and one *)
(* agent, unique names), within the bound on the number of pairs.          *)
(***************************************************************************)
Configs(task_timeouts, pattern_choices, max_pairs) ==
    UNION { { BenchConfig([i \in 1..nt |-> TaskConfig(TaskName(i), <<"x">>, tt[i])],
                          [j \in 1..na |->
                              AgentConfig(AgentName(j), <<"x", Placeholder>>, pp[j])]) :
                tt \in [1..nt -> task_timeouts], pp \in [1..na -> pattern_choices] } :
            <<nt, na>> \in {q \in (1..max_pairs) \X (1..max_pairs) :
                              q[1] * q[2] <= max_pairs} }

AllPatterns == MetricPatterns(MetricNames)

\* environment: the outputs and durations of the commands, whether they
\* write in their working directory and how many processes their shell
\* starts.
Environment(outputs, elapsed, writes, descendants) ==
    [outputs |-> outputs, elapsed |-> elapsed, writes |-> writes,
     descendants |-> descendants]

\* Sandbox directories that exist at the start were left by earlier runs,
\* with the files as a command left them.
InitWith(configs, environment, dirs) ==
    /\ options = NoOptions
    /\ config \in configs
    /\ env = environment
    /\ git_repo \in BOOLEAN
    /\ fs \in [RunIds -> dirs]
    /\ files = [project |-> "project",
                sandbox |-> [p \in RunIds |->
                    IF fs[p] = "absent" THEN None ELSE Some(Tree("modified", {}))]]
    /\ running = 0
    /\ faults = 0
    /\ pc = "loop"
    /\ task_idx = 1
    /\ agent_idx = 1
    /\ timeout = config.timeout
    /\ metrics = None
    /\ sandbox_path = None
    /\ command = None
    /\ agent_result = None
    /\ validation = None
    /\ trace = <<>>
    /\ all_runs = <<>>
    /\ summaries = None
    /\ winner = None
    /\ saved = None
    /\ raised = None

\* A benchmark over a matrix of up to MaxPairs pairs in a project without
\* sandbox directories; the agents declare no extraction patterns.
Init ==
    InitWith(Configs({None}, {None}, MaxPairs),
             Environment({NoOutput}, {MaxElapsed}, {FALSE}, {0}), {"absent"})

Next ==
    \/ CreateSandbox
    \/ RunAgent
    \/ Validate
    \/ Cleanup
    \/ AppendRun
    \/ Finish
    \/ PrintSummary
    \/ SaveRun
    \/ VcsChange

Spec == Init /\ [][Next]_vars

\* The steps of the program, as opposed to those of its environment.
\* run_benchmark is sequential code without waiting other than for its
\* subprocesses, which complete or reach their timeout: whenever a step is
\* possible it is eventually taken.
ProgramStep ==
    \/ CreateSandbox
    \/ RunAgent
    \/ Validate
    \/ Cleanup
    \/ AppendRun
    \/ Finish
    \/ PrintSummary
    \/ SaveRun

SpecLive == Init /\ [][Next]_vars /\ WF_vars(ProgramStep)

\* One pair in full detail: a task with or without its own timeout, an agent
\* with or without extraction patterns, every output and duration, in a
\* project that may hold sandbox directories of earlier runs.
InitSingle ==
    InitWith(Configs({None, Some(0), Some(1)}, {None, Some(AllPatterns)}, 1),
             Environment(Outputs, Elapsed, BOOLEAN, 0..MaxDescendants),
             {"absent", "worktree", "copy"})

SpecSingle == InitSingle /\ [][Next]_vars

\* One pair for the extraction of metrics: an agent without patterns or with
\* patterns for any of the metrics, and a command whose output has a
\* well-formed match for any of the metrics.
PatternChoices == {None} \cup {Some(MetricPatterns(S)) : S \in SUBSET MetricNames}

MatchingOutputs ==
    {[m \in MetricNames |-> IF m \in S THEN StatsOutput[m] ELSE None] :
        S \in SUBSET MetricNames}

InitExtract ==
    InitWith(Configs({None}, PatternChoices, 1),
             Environment(MatchingOutputs, {MaxElapsed}, {FALSE}, {0}), {"absent"})

SpecExtract == InitExtract /\ [][Next]_vars

\* print_summary on its own: the summaries of up to MaxPairs records, for
\* any number of agents, with every verdict, the shortest and the longest
\* duration, and a cost that is absent, zero or positive.
Costs == {None, Some(0), Some(1)}

RecordValues == BOOLEAN \X {0, MaxElapsed} \X Costs

SummaryOf(j, values) ==
    TaskSummary(AgentName(j),
        [i \in 1..Len(values) |->
            [RunMetrics(AgentName(j), TaskName(i)) EXCEPT
                !.passed = values[i][1],
                !.wall_time_seconds = values[i][2],
                !.cost_usd = values[i][3]]])

InitWinner ==
    /\ options = NoOptions
    /\ config \in Configs({None}, {None}, 1)
    /\ env = Environment({NoOutput}, {MaxElapsed}, {FALSE}, {0})
    /\ git_repo = FALSE
    /\ fs = [p \in RunIds |-> "absent"]
    /\ files = [project |-> "project", sandbox |-> [p \in RunIds |-> None]]
    /\ running = 0
    /\ faults = 0
    /\ pc = "print_summary"
    /\ task_idx = 1
    /\ agent_idx = 1
    /\ timeout = config.timeout
    /\ metrics = None
    /\ sandbox_path = None
    /\ command = None
    /\ agent_result = None
    /\ validation = None
    /\ trace = <<>>
    /\ \E nt \in 1..MaxPairs, na \in 0..MaxPairs :
         /\ nt * na <= MaxPairs
         /\ \E vv \in [1..na -> [1..nt -> RecordValues]] :
              /\ summaries = Some([j \in 1..na |-> SummaryOf(j, vv[j])])
              /\ all_runs = [k \in 1..(nt * na) |->
                    SummaryOf(((k - 1) % na) + 1, vv[((k - 1) % na) + 1])
                        .runs[((k - 1) \div na) + 1]]
    /\ winner = None
    /\ saved = None
    /\ raised = None

NextWinner == PrintSummary

SpecWinner == InitWinner /\ [][NextWinner]_vars

\* The summary of one agent on its own: up to MaxRuns records with every
\* verdict, a cost that is absent, zero or positive, and token counts that
\* are present or absent one by one.
TokenValues == {None, Some(3)} \X {None, Some(2)}

SummaryRecord(i, passed, cost, tokens) ==
    [RunMetrics(AgentName(1), TaskName(i)) EXCEPT
        !.passed = passed, !.cost_usd = cost,
        !.tokens_in = tokens[1], !.tokens_out = tokens[2]]

InitSummary ==
    /\ options = NoOptions
    /\ config \in Configs({None}, {None}, 1)
    /\ env = Environment({NoOutput}, {MaxElapsed}, {FALSE}, {0})
    /\ git_repo = FALSE
    /\ fs = [p \in RunIds |-> "absent"]
    /\ files = [project |-> "project", sandbox |-> [p \in RunIds |-> None]]
    /\ running = 0
    /\ faults = 0
    /\ pc = "print_summary"
    /\ task_idx = 1
    /\ agent_idx = 1
    /\ timeout = config.timeout
    /\ metrics = None
    /\ sandbox_path = None
    /\ command = None
    /\ agent_result = None
    /\ validation = None
    /\ trace = <<>>
    /\ \E n \in 0..MaxRuns :
         \E pp \in [1..n -> BOOLEAN], cc \in [1..n -> Costs],
            tt \in [1..n -> TokenValues] :
              /\ all_runs = [i \in 1..n |-> SummaryRecord(i, pp[i], cc[i], tt[i])]
              /\ summaries = Some(<<TaskSummary(AgentName(1), all_runs)>>)
    /\ winner = None
    /\ saved = None
    /\ raised = None

NextSummary == PrintSummary \/ SaveRun

SpecSummary == InitSummary /\ [][NextSummary]_vars

\* print_summary followed by save_run on the same summaries.
SpecHistory == InitWinner /\ [][NextSummary]_vars

\* The documents of bench.yaml: nt tasks and na agents within the bound on
\* the pairs (none included), a timeout that is absent, 0 or 1, and possibly
\* a defect: the key tasks or agents absent, the last task or the last agent
\* named as the first one, the command of one agent without placeholder.
Documents ==
    UNION { { Mapping(t,
                IF no_tasks THEN None
                ELSE Some([i \in 1..nt |->
                        TaskConfig(TaskName(IF dup_task /\ i = nt THEN 1 ELSE i),
                                   <<"x">>, None)]),
                IF no_agents THEN None
                ELSE Some([j \in 1..na |->
                        AgentConfig(AgentName(IF dup_agent /\ j = na THEN 1 ELSE j),
                                    IF j = plain THEN <<"x">> ELSE <<"x", Placeholder>>,
                                    None)])) :
                t \in {None, Some(0), Some(1)},
                no_tasks \in {b \in BOOLEAN : b => nt = 0},
                no_agents \in {b \in BOOLEAN : b => na = 0},
                dup_task \in {b \in BOOLEAN : b => nt >= 2},
                dup_agent \in {b \in BOOLEAN : b => na >= 2},
                plain \in 0..na } :
            <<nt, na>> \in {q \in (0..MaxPairs) \X (0..MaxPairs) :
                              q[1] * q[2] <= MaxPairs} }
    \cup {MissingFile, NoMapping}

\* The command `agentarena run` from its start, in an environment in which
\* nothing fails (the budget of failures is used up).
InitLoadWith(documents, cli_options) ==
    /\ options \in cli_options
    /\ config \in documents
    /\ env = Environment({NoOutput}, {MaxElapsed}, {FALSE}, {0})
    /\ git_repo = FALSE
    /\ fs = [p \in RunIds |-> "absent"]
    /\ files = [project |-> "project", sandbox |-> [p \in RunIds |-> None]]
    /\ running = 0
    /\ faults = MaxFaults
    /\ pc = "load_config"
    /\ task_idx = 1
    /\ agent_idx = 1
    /\ timeout = DefaultTimeout
    /\ metrics = None
    /\ sandbox_path = None
    /\ command = None
    /\ agent_result = None
    /\ validation = None
    /\ trace = <<>>
    /\ all_runs = <<>>
    /\ summaries = None
    /\ winner = None
    /\ saved = None
    /\ raised = None

InitLoad == InitLoadWith(Documents, {NoOptions})

NextLoad ==
    \/ LoadConfig
    \/ CreateSandbox
    \/ RunAgent
    \/ Validate
    \/ Cleanup
    \/ AppendRun
    \/ Finish
    \/ PrintSummary
    \/ SaveRun

SpecLoad == InitLoad /\ [][NextLoad]_vars

\* The command line: a valid bench.yaml within the bound on the pairs, and
\* options: a --timeout of 0, a known or an unknown --task, and up to
\* MaxFlags --agent values that name agents or define them, such that the
\* matrix handed to run_benchmark stays within the bound on the pairs.
CliDocuments ==
    {Mapping(None, Some(c.tasks), Some(c.agents)) :
        c \in Configs({None}, {None}, MaxPairs)}

Flags ==
    {Flag(AgentName(1), None), Flag(AgentName(2), None),
     Flag(AgentName(1), Some(<<"x", Placeholder>>)),
     Flag(AgentName(2), Some(<<"x">>))}

CliOptions ==
    {Options(t, task, agent) :
        t \in {None, Some(0)},
        task \in {<<>>, <<TaskName(1)>>, <<TaskName(0)>>},
        agent \in UNION {[1..k -> Flags] : k \in 0..MaxFlags}}

InitCli ==
    /\ InitLoadWith(CliDocuments, CliOptions)
    /\ LET o == run_options(load_config(config).config, options)
       IN  Len(o.config.tasks) * Len(o.config.agents) <= MaxPairs

SpecCli == InitCli /\ [][NextLoad]_vars

\* One pair whose command template and prompt are any texts of up to
\* MaxText pieces.
TextDocuments ==
    { Mapping(None, Some(<<TaskConfig(TaskName(1), prompt, None)>>),
              Some(<<AgentConfig(AgentName(1), template, None)>>)) :
        prompt \in Texts(MaxText), template \in Texts(MaxText) }

InitCommand == InitLoadWith(TextDocuments, {NoOptions})

SpecCommand == InitCommand /\ [][NextLoad]_vars

(***************************************************************************)
(* What happened in the current pair, read from the trace.                 *)
(***************************************************************************)
Calls(callee) == {k \in 1..Len(trace) : trace[k][1] = callee}
Called(callee) == Calls(callee) # {}
AgentCompleted == \E k \in Calls("agent.run") : trace[k][3] = "completed"
AgentTimedOut == \E k \in Calls("agent.run") : trace[k][3] = "TimeoutExpired"
ValidationTimedOut == \E k \in Calls("run_validation") : trace[k][3] = "TimeoutExpired"
ValidationExitedZero ==
    \E k \in Calls("run_validation") : trace[k][3] = "completed" /\ trace[k][4] = 0
StageRaised == \E k \in Calls("agent.run") \cup Calls("run_validation") : trace[k][5] # ""
CreationFailed == \E k \in Calls("create_sandbox") : trace[k][5] # ""
Existing == {p \in RunIds : exists(p)}
NumPairs == Len(config.tasks) * Len(config.agents)

(***************************************************************************)
(* C1: when run_benchmark ends, it has returned a list with exactly one    *)
(* record for each (task, agent) pair, carrying the names of its pair,     *)
(* whatever happened during creation, agent, validation and cleanup.       *)
(***************************************************************************)
C1_OneRecordPerPair ==
    pc \in {"done", "raised"} =>
        /\ pc = "done"
        /\ Len(all_runs) = NumPairs
        /\ \A i \in 1..Len(config.tasks), j \in 1..Len(config.agents) :
             Cardinality({k \in 1..Len(all_runs) :
                 /\ all_runs[k].task_name = config.tasks[i].name
                 /\ all_runs[k].agent_name = config.agents[j].name}) = 1

(***************************************************************************)
(* C2: once create_sandbox has returned a sandbox, cleanup_sandbox is      *)
(* called on that sandbox exactly once before _run_single returns or       *)
(* raises, and not before the stages are over.                             *)
(***************************************************************************)
C2_CleanupExactlyOnce ==
    /\ (~IsNone(sandbox_path) /\ pc \in {"returned", "raised"}) =>
          /\ Cardinality(Calls("cleanup_sandbox")) = 1
          /\ \A k \in Calls("cleanup_sandbox") : trace[k][2] = Get(sandbox_path)
    /\ pc \in {"agent", "validate", "cleanup"} => ~Called("cleanup_sandbox")
    /\ IsNone(sandbox_path) => ~Called("cleanup_sandbox")

C2_Witness ==
    /\ pc = "returned"
    /\ ~IsNone(sandbox_path)
    /\ \E k \in Calls("run_validation") : trace[k][5] # ""
    /\ Cardinality(Calls("cleanup_sandbox")) = 1

(***************************************************************************)
(* C3: when _run_single has finished for a pair, the sandbox directory of  *)
(* the pair no longer exists, also when the removal fails; at most one     *)
(* sandbox exists at any time and none when run_benchmark returns.         *)
(***************************************************************************)
C3_SandboxNeverOutlivesPair ==
    /\ (pc = "returned" /\ ~IsNone(sandbox_path)) => ~exists(Get(sandbox_path))
    /\ Cardinality(Existing) <= 1
    /\ pc = "done" => Existing = {}

(***************************************************************************)
(* C4: a failed sandbox creation, under either strategy, is recorded as    *)
(* the error of the pair's record with passed = false, and _run_single     *)
(* returns that record so that the matrix continues.                       *)
(***************************************************************************)
C4_CreationFailureRecorded ==
    CreationFailed =>
        /\ pc = "returned"
        /\ ~IsNone(Get(metrics).error)
        /\ ~Get(metrics).passed

(***************************************************************************)
(* C5: an exception raised by the agent or the validation stage is caught: *)
(* the record holds its text as error, passed is false, cleanup runs and   *)
(* _run_single returns the record normally.                                *)
(***************************************************************************)
C5_StageExceptionContained ==
    StageRaised =>
        /\ pc \in {"cleanup", "returned"}
        /\ ~IsNone(Get(metrics).error)
        /\ ~Get(metrics).passed
        /\ pc = "returned" => Called("cleanup_sandbox")

(***************************************************************************)
(* C6: cleanup_sandbox never raises out of _run_single, also when the      *)
(* worktree removal and the prune fallback both fail.                      *)
(***************************************************************************)
C6_CleanupNeverRaises == ~(pc = "raised" /\ Called("cleanup_sandbox"))

(***************************************************************************)
(* C7: if the agent invocation timed out, the record has passed = false    *)
(* and timed_out = true, validation is never invoked, and the pair is in   *)
(* cleanup or past it.                                                     *)
(***************************************************************************)
C7_AgentTimeoutSkipsValidation ==
    AgentTimedOut =>
        /\ ~Get(metrics).passed
        /\ Get(metrics).timed_out
        /\ ~Called("run_validation")
        /\ pc \in {"cleanup", "returned", "raised"}

C7_Witness == pc = "returned" /\ AgentTimedOut /\ Called("cleanup_sandbox")

(***************************************************************************)
(* C8: for a pair whose agent invocation completed without timing out,     *)
(* passed is true iff the validation command exited with code 0.           *)
(***************************************************************************)
C8_PassedIffValidationExitZero ==
    AgentCompleted => (Get(metrics).passed <=> ValidationExitedZero)

C8_Witness == pc = "returned" /\ AgentCompleted /\ Get(metrics).passed

(***************************************************************************)
(* C9: timed_out is true iff the agent invocation or the validation timed  *)
(* out; a timed-out validation gives passed = false and timed_out = true,  *)
(* a timed-out agent gives timed_out = true without validation.            *)
(***************************************************************************)
C9_TimedOutIffEitherTimedOut ==
    ~IsNone(metrics) =>
        /\ Get(metrics).timed_out <=> (AgentTimedOut \/ ValidationTimedOut)
        /\ ValidationTimedOut => ~Get(metrics).passed /\ Get(metrics).timed_out
        /\ AgentTimedOut => Get(metrics).timed_out /\ ~Called("run_validation")

C9_Witness ==
    pc = "returned" /\ ValidationTimedOut /\ Get(metrics).timed_out /\ ~AgentTimedOut

(***************************************************************************)
(* C10: a command that does not complete within the timeout gives a result *)
(* with timed_out = true, exit_code = -1 and a timeout message in stderr;  *)
(* no exception leaves the executor and the record's error stays absent.   *)
(***************************************************************************)
C10_TimeoutIsAResult ==
    /\ AgentTimedOut =>
          /\ \A k \in Calls("agent.run") : trace[k][5] = ""
          /\ ~IsNone(agent_result)
          /\ Get(agent_result).timed_out
          /\ Get(agent_result).exit_code = -1
          /\ Get(agent_result).stderr = <<"Agent timed out after", timeout, "s">>
          /\ IsNone(Get(metrics).error)
    /\ ValidationTimedOut =>
          /\ \A k \in Calls("run_validation") : trace[k][5] = ""
          /\ ~IsNone(validation)
          /\ Get(validation).timed_out
          /\ Get(validation).exit_code = -1
          /\ Get(validation).stderr = <<"Validation timed out after", timeout, "s">>
          /\ IsNone(Get(metrics).error)

C10_Witness == pc = "cleanup" /\ ValidationTimedOut /\ ~IsNone(validation)

(***************************************************************************)
(* C12: the effective timeout of a pair is the task's own timeout whenever *)
(* the task declares one, whatever integer it is, and the global timeout   *)
(* otherwise; a timed-out agent and a timed-out validation both ran with   *)
(* that value.                                                             *)
(***************************************************************************)
C12_TaskTimeoutOverrides ==
    Called("create_sandbox") =>
        LET task == config.tasks[task_idx]
            declared == IF IsNone(task.timeout) THEN config.timeout
                        ELSE Get(task.timeout)
        IN  /\ timeout = declared
            /\ (AgentTimedOut /\ ~IsNone(agent_result)) =>
                   Get(agent_result).stderr[2] = declared
            /\ (ValidationTimedOut /\ ~IsNone(validation)) =>
                   Get(validation).stderr[2] = declared

(***************************************************************************)
(* C13: the list of records is task-major, agent-minor: with m agents the  *)
(* record of the i-th task and j-th agent (both counted from 0) is at      *)
(* index i*m + j, and the pairs are executed in that order.                *)
(***************************************************************************)
C13_TaskMajorOrder ==
    LET m == Len(config.agents)
    IN  /\ \A k \in 1..Len(all_runs) :
             /\ all_runs[k].task_name = config.tasks[((k - 1) \div m) + 1].name
             /\ all_runs[k].agent_name = config.agents[((k - 1) % m) + 1].name
        /\ (pc # "summaries" /\ IsNone(summaries)) =>
             /\ Len(all_runs) = (task_idx - 1) * m + (agent_idx - 1)
             /\ ~IsNone(metrics) =>
                  /\ Get(metrics).task_name = config.tasks[task_idx].name
                  /\ Get(metrics).agent_name = config.agents[agent_idx].name

C13_Witness ==
    /\ pc = "done"
    /\ Len(config.tasks) = 2
    /\ Len(config.agents) = 2
    /\ Len(all_runs) = 4

(***************************************************************************)
(* C14: cleanup_sandbox on a path that does not exist raises nothing,      *)
(* issues no removal command and leaves the directories as they are, so a  *)
(* second cleanup of a sandbox changes nothing.                            *)
(***************************************************************************)
C14_CleanupIdempotent ==
    /\ \A p \in RunIds : ~exists(p) =>
         \A remove_fails \in BOOLEAN, prune_fails \in BOOLEAN :
             cleanup_sandbox(p, remove_fails, prune_fails) =
                 [exc |-> None, fs |-> fs, cmds |-> <<>>]
    /\ (Called("cleanup_sandbox") /\ trace[Len(trace)][1] = "cleanup_sandbox") =>
         pc = "returned"

C14_Witness ==
    /\ pc = "returned"
    /\ Called("cleanup_sandbox")
    /\ trace[Len(trace)][1] = "cleanup_sandbox"
    /\ ~IsNone(sandbox_path)
    /\ ~exists(Get(sandbox_path))

(***************************************************************************)
(* C11: when a command has run into the timeout and the executor has       *)
(* returned, the whole process tree of the command (the shell and every    *)
(* process it started) has been killed: no process started by the command  *)
(* is still running.                                                       *)
(***************************************************************************)
C11_TimeoutKillsProcessTree ==
    (AgentTimedOut \/ ValidationTimedOut) => running = 0

Picked == pc \in {"save_run", "done"} /\ ~IsNone(summaries) /\ ~IsNone(winner)
SamePassRate(a, b) == Equal(pass_rate(a), pass_rate(b))
SameCost(a, b) ==
    \/ IsNone(avg_cost(a)) /\ IsNone(avg_cost(b))
    \/ /\ ~IsNone(avg_cost(a))
       /\ ~IsNone(avg_cost(b))
       /\ Equal(Get(avg_cost(a)), Get(avg_cost(b)))
\* a costs less than b, a summary without cost data costing infinitely much.
CostsLess(a, b) ==
    /\ ~IsNone(avg_cost(a))
    /\ IsNone(avg_cost(b)) \/ Less(Get(avg_cost(a)), Get(avg_cost(b)))
Swap(seq, k) ==
    [i \in 1..Len(seq) |-> IF i = k THEN seq[k + 1]
                           ELSE IF i = k + 1 THEN seq[k] ELSE seq[i]]

(***************************************************************************)
(* C17: _pick_winner returns none for an empty list of summaries and       *)
(* otherwise one of the summaries, whose pass rate is the highest of all,  *)
(* whatever the costs and the wall times are.                              *)
(***************************************************************************)
C17_HighestPassRateWins ==
    (pc \in {"save_run", "done"} /\ ~IsNone(summaries)) =>
        LET ss == Get(summaries)
        IN  /\ IsNone(winner) <=> ss = <<>>
            /\ ~IsNone(winner) =>
                 /\ \E k \in 1..Len(ss) : ss[k] = Get(winner)
                 /\ \A k \in 1..Len(ss) :
                      ~Less(pass_rate(Get(winner)), pass_rate(ss[k]))

C17_Witness ==
    /\ Picked
    /\ \E k \in 1..Len(Get(summaries)) :
         LET s == Get(summaries)[k]
         IN  /\ Less(pass_rate(s), pass_rate(Get(winner)))
             /\ CostsLess(s, Get(winner))
             /\ Less(avg_time(s), avg_time(Get(winner)))

(***************************************************************************)
(* C18: among the summaries with the winner's pass rate none has a lower   *)
(* average cost than the winner, for every cost including zero, where      *)
(* exactly the summaries without cost data count as infinitely costly.     *)
(***************************************************************************)
C18_LowestCostWins ==
    Picked =>
        \A k \in 1..Len(Get(summaries)) :
            SamePassRate(Get(summaries)[k], Get(winner)) =>
                ~CostsLess(Get(summaries)[k], Get(winner))

(***************************************************************************)
(* C19: among the summaries with the winner's pass rate and the winner's   *)
(* average cost (or, like the winner, without cost data) none has a lower  *)
(* average wall time than the winner.                                      *)
(***************************************************************************)
C19_LowestTimeWins ==
    Picked =>
        \A k \in 1..Len(Get(summaries)) :
            (/\ SamePassRate(Get(summaries)[k], Get(winner))
             /\ SameCost(Get(summaries)[k], Get(winner))) =>
                ~Less(avg_time(Get(summaries)[k]), avg_time(Get(winner)))

C19_Witness ==
    /\ Picked
    /\ Get(summaries)[1] # Get(winner)
    /\ SamePassRate(Get(summaries)[1], Get(winner))
    /\ SameCost(Get(summaries)[1], Get(winner))
    /\ Less(avg_time(Get(winner)), avg_time(Get(summaries)[1]))

C21_OneSummaryPerAgent ==
    ~IsNone(summaries) =>
        LET ss == Get(summaries)
        IN  /\ Len(ss) = Len(config.agents)
            /\ \A j \in 1..Len(ss) :
                 LET own == {k \in 1..Len(all_runs) :
                                all_runs[k].agent_name = config.agents[j].name}
                 IN  /\ ss[j].agent_name = config.agents[j].name
                     /\ Len(ss[j].runs) = Cardinality(own)
                     /\ \A i \in 1..Len(ss[j].runs) :
                          \E k \in own :
                              /\ Cardinality({k2 \in own : k2 <= k}) = i
                              /\ ss[j].runs[i] = all_runs[k]

C21_Witness ==
    /\ pc = "done"
    /\ Len(config.agents) = 2
    /\ Len(config.tasks) = 2
    /\ Get(summaries)[2].runs[1].passed
    /\ ~Get(summaries)[2].runs[2].passed
    /\ ~Get(summaries)[1].runs[1].passed

(***************************************************************************)
(* Sums and means for the statements about summaries.                      *)
(***************************************************************************)
RECURSIVE SumOver(_, _)
\* The sum of f[k] over the k of a finite set.
SumOver(f, S) ==
    IF S = {} THEN 0
    ELSE LET k == CHOOSE x \in S : TRUE IN f[k] + SumOver(f, S \ {k})

\* q is the quotient total / count.
IsQuotient(q, total, count) == q[2] > 0 /\ q[1] * count = total * q[2]

(***************************************************************************)
(* C22: for every list of runs the derived fields of a TaskSummary are:    *)
(* total_count the number of runs, pass_count the number of passed runs,   *)
(* pass_rate their quotient and 0 without runs, avg_cost the mean of the   *)
(* costs that are present and absent when none is, total_tokens_sum the    *)
(* sum of the total_tokens that are present and absent when none is; the   *)
(* history file holds these values.                                        *)
(***************************************************************************)
C22_SummaryFields ==
    (~IsNone(summaries) /\ Len(Get(summaries)) = 1) =>
        LET s == Get(summaries)[1]
            runs == s.runs
            passed == {k \in 1..Len(runs) : runs[k].passed}
            costed == {k \in 1..Len(runs) : ~IsNone(runs[k].cost_usd)}
            counted == {k \in 1..Len(runs) :
                           ~IsNone(runs[k].tokens_in) /\ ~IsNone(runs[k].tokens_out)}
            cost == [k \in costed |-> Get(runs[k].cost_usd)]
            tokens == [k \in counted |->
                          Get(runs[k].tokens_in) + Get(runs[k].tokens_out)]
        IN  /\ total_count(s) = Len(runs)
            /\ pass_count(s) = Cardinality(passed)
            /\ 0 <= pass_count(s) /\ pass_count(s) <= total_count(s)
            /\ IF runs = <<>> THEN IsQuotient(pass_rate(s), 0, 1)
               ELSE IsQuotient(pass_rate(s), Cardinality(passed), Len(runs))
            /\ IF costed = {} THEN IsNone(avg_cost(s))
               ELSE /\ ~IsNone(avg_cost(s))
                    /\ IsQuotient(Get(avg_cost(s)), SumOver(cost, costed),
                                  Cardinality(costed))
            /\ IF counted = {} THEN IsNone(total_tokens_sum(s))
               ELSE total_tokens_sum(s) = Some(SumOver(tokens, counted))
            /\ ~IsNone(saved) =>
                 /\ Get(saved).summary[1].total_count = Len(runs)
                 /\ Get(saved).summary[1].pass_count = Cardinality(passed)
                 /\ IsNone(Get(saved).summary[1].avg_cost) <=> costed = {}
                 /\ IsNone(Get(saved).summary[1].total_tokens) <=> counted = {}

C22_Witness ==
    /\ pc = "done"
    /\ Len(Get(summaries)) = 1
    /\ Len(Get(summaries)[1].runs) = 3
    /\ pass_count(Get(summaries)[1]) = 2
    /\ ~IsNone(avg_cost(Get(summaries)[1]))
    /\ IsQuotient(Get(avg_cost(Get(summaries)[1])), 1, 2)
    /\ Get(saved).summary[1].total_tokens = Some(5)

(***************************************************************************)
(* C23: for every RunMetrics, total_tokens is tokens_in + tokens_out when  *)
(* both are present and absent when either one is absent.                  *)
(***************************************************************************)
C23_TotalTokens ==
    \A k \in 1..Len(all_runs) :
        LET r == all_runs[k]
        IN  /\ (~IsNone(r.tokens_in) /\ ~IsNone(r.tokens_out)) =>
                 total_tokens(r) = Some(Get(r.tokens_in) + Get(r.tokens_out))
            /\ (IsNone(r.tokens_in) \/ IsNone(r.tokens_out)) =>
                 IsNone(total_tokens(r))

C23_Witness ==
    /\ pc = "done"
    /\ Len(all_runs) = 2
    /\ ~IsNone(all_runs[1].tokens_in) /\ IsNone(all_runs[1].tokens_out)
    /\ IsNone(all_runs[2].tokens_in) /\ ~IsNone(all_runs[2].tokens_out)
    /\ IsNone(Get(saved).summary[1].total_tokens)

(***************************************************************************)
(* C24: the command line handed to the shell is the template with every    *)
(* placeholder replaced by the prompt, in a single pass: the text outside  *)
(* the placeholders is unchanged, as many prompts are inserted as the      *)
(* template has placeholders, and a placeholder inside the prompt stays.   *)
(***************************************************************************)
C24_EveryPlaceholderReplaced ==
    ~IsNone(command) =>
        LET cmd == Get(command)
            template == agents[agent_idx].command_template
            prompt == config.tasks[task_idx].prompt
            holes == {k \in 1..Len(template) : template[k] = Placeholder}
            \* where the piece k of the template starts in the command
            start(k) == (k - 1) + Cardinality({h \in holes : h < k}) * (Len(prompt) - 1)
        IN  /\ Len(cmd) = Len(template) - Cardinality(holes)
                            + Cardinality(holes) * Len(prompt)
            /\ \A k \in 1..Len(template) :
                 IF k \in holes
                 THEN SubSeq(cmd, start(k) + 1, start(k) + Len(prompt)) = prompt
                 ELSE cmd[start(k) + 1] = template[k]

C24_Witness ==
    /\ pc = "validate"
    /\ ~IsNone(command)
    /\ agents[agent_idx].command_template = <<Placeholder, "x", Placeholder>>
    /\ config.tasks[task_idx].prompt = <<"x", Placeholder>>
    /\ Get(command) = <<"x", Placeholder, "x", "x", Placeholder>>

(***************************************************************************)
(* C27: a configuration that the loader accepted has at least one task and *)
(* one agent, pairwise distinct task names, pairwise distinct agent names, *)
(* the placeholder in every agent command and a timeout of at least 1;     *)
(* when the loader raises, the command ends and no sandbox was created and *)
(* no command was run.                                                     *)
(***************************************************************************)
Loaded == pc # "load_config" /\ "kind" \notin DOMAIN config
Rejected == pc # "load_config" /\ "kind" \in DOMAIN config

C27_ConfigErrorsSurfaceFirst ==
    /\ Loaded =>
         /\ Len(config.tasks) >= 1
         /\ Len(config.agents) >= 1
         /\ \A i, k \in 1..Len(config.tasks) :
              i # k => config.tasks[i].name # config.tasks[k].name
         /\ \A i, k \in 1..Len(config.agents) :
              i # k => config.agents[i].name # config.agents[k].name
         /\ \A j \in 1..Len(config.agents) :
              Contains(config.agents[j].command, Placeholder)
         /\ config.timeout >= 1
    /\ Rejected =>
         /\ pc = "raised"
         /\ raised = Some(<<"SystemExit", 1>>)
         /\ \A p \in RunIds : fs[p] = "absent" /\ IsNone(files.sandbox[p])
         /\ trace = <<>> /\ IsNone(command) /\ IsNone(metrics)
         /\ all_runs = <<>> /\ IsNone(summaries) /\ IsNone(saved)

C27_Witness ==
    /\ Rejected
    /\ config.kind = "mapping"
    /\ ~IsNone(config.tasks) /\ Len(Get(config.tasks)) = 2
    /\ Get(config.tasks)[1].name = Get(config.tasks)[2].name
    /\ ~IsNone(config.agents) /\ Len(Get(config.agents)) = 1
    /\ Contains(Get(config.agents)[1].command, Placeholder)
    /\ config.timeout = Some(1)

(***************************************************************************)
(* C25: the exit code of the agent command is informational only: when the *)
(* command has completed (no timeout), whatever its exit code, validation  *)
(* runs and the record's passed, timed_out and error are those of the      *)
(* validation, so that two executions that differ only in the exit code    *)
(* give the same record.                                                   *)
(***************************************************************************)
C25_ExitCodeInformational ==
    (pc = "returned" /\ AgentCompleted) =>
        /\ Called("run_validation")
        /\ Get(metrics).passed <=> ValidationExitedZero
        /\ Get(metrics).timed_out <=> ValidationTimedOut
        /\ ~IsNone(Get(metrics).error) <=>
             \E k \in Calls("run_validation") : trace[k][5] # ""

(***************************************************************************)
(* C26: the extracted metrics hold a metric exactly when its pattern is    *)
(* configured and matches the output, with the captured value; a metric    *)
(* without pattern or without match is absent (not 0) and raises nothing,  *)
(* whatever the other metrics are.                                         *)
(***************************************************************************)
Extracted(result, m) ==
    CASE m = "tokens_in" -> result.tokens_in
      [] m = "tokens_out" -> result.tokens_out
      [] m = "cost" -> result.cost_usd
      [] OTHER -> result.llm_calls

C26_OnlyMatchedMetrics ==
    /\ \A k \in Calls("agent.run") : trace[k][5] # "ValueError"
    /\ (~IsNone(agent_result) /\ ~Get(agent_result).timed_out) =>
         LET result == Get(agent_result)
             patterns == agents[agent_idx].patterns
             out == result.stdout
         IN  \A m \in MetricNames :
               IF ~IsNone(patterns) /\ Get(patterns)[m] /\ ~IsNone(out[m])
               THEN /\ Extracted(result, m) = Some(Get(out[m]).value)
                    /\ Extracted(Get(metrics), m) = Some(Get(out[m]).value)
               ELSE /\ IsNone(Extracted(result, m))
                    /\ IsNone(Extracted(Get(metrics), m))

C26_Witness ==
    /\ pc = "validate"
    /\ ~IsNone(agent_result)
    /\ agents[agent_idx].patterns = Some(MetricPatterns({"tokens_in", "cost"}))
    /\ Get(agent_result).stdout =
         [StatsOutput EXCEPT !["tokens_in"] = None, !["llm_calls"] = None]
    /\ IsNone(Get(agent_result).tokens_in)
    /\ IsNone(Get(agent_result).tokens_out)
    /\ Get(agent_result).cost_usd = Some(1)
    /\ IsNone(Get(agent_result).llm_calls)

(***************************************************************************)
(* C28: when the creation of the sandbox fails, no further stage of the    *)
(* pair is executed (no agent command, no validation command, no call of   *)
(* cleanup_sandbox) and the record is returned with the error set,         *)
(* passed = false, timed_out = false, wall_time_seconds = 0 and no         *)
(* extracted metrics.                                                      *)
(***************************************************************************)
C28_CreationFailureEndsPair ==
    CreationFailed =>
        /\ ~Called("agent.run")
        /\ ~Called("run_validation")
        /\ ~Called("cleanup_sandbox")
        /\ IsNone(command)
        /\ pc = "returned"
        /\ ~IsNone(Get(metrics).error)
        /\ ~Get(metrics).passed
        /\ ~Get(metrics).timed_out
        /\ Get(metrics).wall_time_seconds = 0
        /\ \A m \in MetricNames : IsNone(Extracted(Get(metrics), m))

(***************************************************************************)
(* C29: within a pair the stages occur in the order sandbox creation,      *)
(* agent invocation, validation, cleanup, each at most once: the agent     *)
(* runs only after the sandbox was created and in it, validation only      *)
(* after the agent invocation has returned and in the same sandbox, and    *)
(* cleanup after both.                                                     *)
(***************************************************************************)
Stages == <<"create_sandbox", "agent.run", "run_validation", "cleanup_sandbox">>

C29_StagesInOrderOnce ==
    /\ \A n \in 1..Len(Stages) : Cardinality(Calls(Stages[n])) <= 1
    /\ \A n, o \in 1..Len(Stages) :
         n < o => \A k \in Calls(Stages[n]), l \in Calls(Stages[o]) : k < l
    /\ trace # <<>> => trace[1][1] = "create_sandbox"
    /\ \A k \in Calls("agent.run") :
         /\ trace[1][5] = ""
         /\ trace[k][2] = trace[1][2]
         /\ k = 2
    /\ \A k \in Calls("run_validation") :
         /\ Called("agent.run")
         /\ ~IsNone(agent_result)
         /\ trace[k][2] = trace[1][2]
         /\ k = 3
    /\ \A k \in Calls("cleanup_sandbox") :
         /\ Called("agent.run")
         /\ trace[k][2] = trace[1][2]
         /\ pc \in {"returned", "raised"}
    /\ pc = "agent" => ~Called("agent.run")
    /\ pc = "validate" => ~Called("run_validation")

C29_Witness ==
    /\ pc = "returned"
    /\ \A n \in 1..Len(Stages) : Cardinality(Calls(Stages[n])) = 1
    /\ ValidationExitedZero

(***************************************************************************)
(* C30: the summaries are built, the winner is picked and the run is saved *)
(* only after every pair of the matrix has its record, and they are        *)
(* computed from the complete list of records.                             *)
(***************************************************************************)
C30_AggregationAfterAllPairs ==
    (\/ ~IsNone(summaries) \/ ~IsNone(winner) \/ ~IsNone(saved)
     \/ pc \in {"print_summary", "save_run", "done"}) =>
        /\ Len(all_runs) = NumPairs
        /\ \A i \in 1..Len(config.tasks), j \in 1..Len(config.agents) :
             \E k \in 1..Len(all_runs) :
                /\ all_runs[k].task_name = config.tasks[i].name
                /\ all_runs[k].agent_name = config.agents[j].name
        /\ IsNone(metrics) /\ trace = <<>>
        /\ ~IsNone(summaries)
        /\ \A j \in 1..Len(config.agents) :
             Get(summaries)[j].runs =
                SelectSeq(all_runs, LAMBDA r : r.agent_name = config.agents[j].name)
        /\ pc \in {"save_run", "done"} => winner = _pick_winner(Get(summaries))
        /\ ~IsNone(saved) =>
             /\ Get(saved).runs = all_runs
             /\ Len(Get(saved).summary) = Len(config.agents)

C30_Witness ==
    /\ pc = "done"
    /\ ~IsNone(saved)
    /\ Len(all_runs) = 4
    /\ Len(config.tasks) = 2
    /\ \E k \in 1..Len(all_runs) : ~IsNone(all_runs[k].error)
    /\ \E k \in 1..Len(all_runs) : all_runs[k].passed

(***************************************************************************)
(* C31: no step changes a record of a finished pair: the later pairs, the  *)
(* building of the summaries, the choice of the winner and the saving of   *)
(* the history leave every field of every record in all_runs as it was,    *)
(* and the summaries hold these records.                                   *)
(***************************************************************************)
C31_FinishedRecordsUnchanged ==
    [][/\ Len(all_runs') >= Len(all_runs)
       /\ \A k \in 1..Len(all_runs) : all_runs'[k] = all_runs[k]
       /\ ~IsNone(summaries') =>
            \A j \in 1..Len(Get(summaries')) :
               \A i \in 1..Len(Get(summaries')[j].runs) :
                  \E k \in 1..Len(all_runs') :
                     Get(summaries')[j].runs[i] = all_runs'[k]
       /\ ~IsNone(saved') => Get(saved').runs = all_runs']_vars

C31_Witness ==
    /\ pc = "done"
    /\ Len(all_runs) = 3
    /\ all_runs[1].passed /\ ~all_runs[2].passed
    /\ ~IsNone(all_runs[3].error)
    /\ Get(saved).runs = all_runs

(***************************************************************************)
(* C32: when every subprocess completes or reaches its timeout, every pair *)
(* is eventually finished with its sandbox destroyed and run_benchmark     *)
(* eventually returns the list with the records of all pairs.              *)
(***************************************************************************)
C32_RunsToCompletion ==
    <>(/\ pc = "done"
       /\ Len(all_runs) = NumPairs
       /\ Existing = {})

(***************************************************************************)
(* C33: wall_time_seconds is the elapsed time of the agent invocation      *)
(* only: it is written when the agent invocation returns, and the creation *)
(* of the sandbox, the validation and the cleanup leave it unchanged, so   *)
(* that the duration of the validation is never part of it.                *)
(***************************************************************************)
C33_WallTimeIsAgentTime ==
    /\ [](~IsNone(metrics) =>
            /\ \A k \in Calls("agent.run") :
                 Get(metrics).wall_time_seconds =
                    IF trace[k][5] = "" THEN trace[k][6] ELSE 0
            /\ ~Called("agent.run") => Get(metrics).wall_time_seconds = 0)
    /\ [][(~IsNone(metrics) /\ ~IsNone(metrics') /\ pc # "agent") =>
            Get(metrics').wall_time_seconds = Get(metrics).wall_time_seconds]_vars

C33_Witness ==
    /\ pc = "returned"
    /\ Get(metrics).wall_time_seconds = 0
    /\ \E k \in Calls("agent.run") : trace[k][6] = 0
    /\ \E k \in Calls("run_validation") : trace[k][6] = MaxElapsed
    /\ ~IsNone(validation) /\ Get(validation).duration_seconds = MaxElapsed

(***************************************************************************)
(* C34: in every record of _run_single, passed = true implies that         *)
(* timed_out is false and that error is absent.                            *)
(***************************************************************************)
C34_PassedExcludesTimeoutAndError ==
    /\ ~IsNone(metrics) =>
         (Get(metrics).passed =>
             ~Get(metrics).timed_out /\ IsNone(Get(metrics).error))
    /\ \A k \in 1..Len(all_runs) :
         all_runs[k].passed =>
             ~all_runs[k].timed_out /\ IsNone(all_runs[k].error)

C34_Witness ==
    /\ pc = "summaries"
    /\ Len(all_runs) = 1
    /\ all_runs[1].passed
    /\ ~all_runs[1].timed_out
    /\ IsNone(all_runs[1].error)

(***************************************************************************)
(* C35: the extraction of metrics never raises, whatever the agent wrote:  *)
(* a pair whose agent command completed without timing out always goes on  *)
(* to validation and its record holds the elapsed time of the agent.       *)
(***************************************************************************)
C35_ExtractionNeverRaises ==
    /\ \A k \in Calls("agent.run") : trace[k][5] # "ValueError"
    /\ (AgentCompleted /\ pc \in {"cleanup", "returned"}) =>
         /\ Called("run_validation")
         /\ \A k \in Calls("agent.run") :
              Get(metrics).wall_time_seconds = trace[k][6]

(***************************************************************************)
(* C36: the extracted metrics are present in a record only if the agent    *)
(* declares patterns and its invocation completed without timing out; for  *)
(* an agent without patterns, for a timed-out invocation and for a failed  *)
(* creation of the sandbox all four are absent.                            *)
(***************************************************************************)
HasMetrics(r) == \E m \in MetricNames : ~IsNone(Extracted(r, m))

C36_MetricsOnlyFromPatterns ==
    /\ ~IsNone(metrics) =>
         /\ HasMetrics(Get(metrics)) =>
              /\ ~IsNone(agents[agent_idx].patterns)
              /\ AgentCompleted
              /\ ~AgentTimedOut
         /\ IsNone(agents[agent_idx].patterns) => ~HasMetrics(Get(metrics))
         /\ AgentTimedOut => ~HasMetrics(Get(metrics))
         /\ CreationFailed => ~HasMetrics(Get(metrics))
    /\ \A k \in 1..Len(all_runs) :
         HasMetrics(all_runs[k]) =>
            \E j \in 1..Len(config.agents) :
               /\ config.agents[j].name = all_runs[k].agent_name
               /\ ~IsNone(config.agents[j].patterns)

C36_Witness ==
    /\ pc = "returned"
    /\ AgentTimedOut
    /\ ~IsNone(agents[agent_idx].patterns)
    /\ ~HasMetrics(Get(metrics))

(***************************************************************************)
(* C37: the winner that save_run writes to the history file is the agent   *)
(* that _pick_winner declared for the same summaries, also when several    *)
(* agents tie on pass rate and average cost.                               *)
(***************************************************************************)
C37_HistoryWinnerIsDeclaredWinner ==
    ~IsNone(saved) =>
        Get(saved).winner =
            IF IsNone(winner) THEN None ELSE Some(Get(winner).agent_name)

(***************************************************************************)
(* C38: every TaskSummary built after a benchmark run holds exactly one    *)
(* run per task, so that its total_count is the number of tasks, for every *)
(* agent list the command line can hand to run_benchmark, repeated --agent *)
(* names and "name:command" values with an existing name included.         *)
(***************************************************************************)
C38_OneRunPerTaskInSummary ==
    ~IsNone(summaries) =>
        \A j \in 1..Len(Get(summaries)) :
            LET s == Get(summaries)[j]
            IN  /\ total_count(s) = Len(config.tasks)
                /\ \A i \in 1..Len(config.tasks) :
                     Cardinality({k \in 1..Len(s.runs) :
                        s.runs[k].task_name = config.tasks[i].name}) = 1

(***************************************************************************)
(* C39: cleanup_sandbox removes a sandbox with the mechanism of the        *)
(* strategy that created it: a copy by recursive deletion, a worktree by   *)
(* worktree removal, also when the version-control status of the project   *)
(* root has changed since the creation.                                    *)
(***************************************************************************)
C39_CleanupMatchesCreation ==
    [][pc = "cleanup" =>
         \A k \in (Len(trace) + 1)..Len(trace') :
            /\ trace'[k][1] = "rmtree" => fs[trace'[k][2]] = "copy"
            /\ trace'[k][1] \in {"git worktree remove", "git worktree prune"} =>
                 fs[trace'[k][2]] = "worktree"]_vars

====
